---- MODULE Spec2Model ----
(***************************************************************************)
(* Teams bot provisioning: the backend (session store, OAuth callback,     *)
(* consent check, four provisioning endpoints) and the browser frontends   *)
(* that drive it.  The repository ships three deployments of the same      *)
(* design; `variant` selects which pair of files is running:               *)
(*   "confidential"  backend/server-confidential.js + the wizard frontend   *)
(*   "reference"     the reference backend + the reference frontend          *)
(*   "devicecode"    the archived device-code backend + its wizard frontend *)
(* Remote collaborators (identity provider, Graph, Teams Developer Portal) *)
(* are opaque: every call's outcome is a nondeterministic input.           *)
(***************************************************************************)
EXTENDS Integers, Sequences, FiniteSets, TLC

VARIABLES
    variant,      \* which deployment of the repository is running
    clock,        \* Date.now()
    sessions,     \* the backend's `sessions` Map: session id -> {account, createdAt}
    issued,       \* history: the state values /api/auth/start has returned
    pending,      \* the device-code backend's pendingDeviceCodeRequests Map
    last,         \* the request handled last: operation, request, response, remote calls
    ui            \* the browser frontend: form, captured config, credentials, last run

vars == <<variant, clock, sessions, issued, pending, last, ui>>

\* ------------------------------------------------------------------ bounds
MaxClock == 1
MaxSessions == 2
MaxPending == 1
MaxIssued == 1
MaxRuns == 2
MaxOverlap == 1

\* ----------------------------------------------------------- configuration
Variants == {"confidential", "reference", "devicecode"}

\* scope strings, as the segments scope.split('/') yields
GraphAppScope == <<"https:", "", "graph.microsoft.com", "Application.ReadWrite.All">>
GraphInstallScope == <<"https:", "", "graph.microsoft.com", "TeamsAppInstallation.ReadForUser">>
TdpScope == <<"https:", "", "dev.teams.microsoft.com", "AppDefinitions.ReadWrite">>

\* CONFIG.graphScopes and CONFIG.tdpScopes
graphScopes(v) ==
    IF v = "devicecode" THEN <<GraphAppScope, GraphInstallScope>> ELSE <<GraphAppScope>>
tdpScopes == <<TdpScope>>

\* URIs, as sequences of reserved characters and runs of unreserved ones
ConfidentialConsentRedirect ==
    <<"https", ":", "/", "/", "3hvfdfhp-8080.usw2.devtunnels.ms", "/", "admin-consent-callback.html">>
ReferenceConsentRedirect ==
    <<"http", ":", "/", "/", "localhost", ":", "8080", "/", "admin-consent-callback.html">>

ConfigClientId(v) ==
    IF v = "confidential" THEN "22eb633f-f8bb-4818-90a6-ffac6de52b01"
    ELSE IF v = "reference" THEN "YOUR_CLIENT_ID"
    ELSE "7ea7c24c-b1f6-4a20-9d11-9ae12e9e7ac0"

ConfigAdminConsentRedirectUri(v) ==
    IF v = "confidential" THEN ConfidentialConsentRedirect ELSE ReferenceConsentRedirect

Range(seq) == {seq[i] : i \in DOMAIN seq}

\* ------------------------------------------------------------ identifiers
RandomValues == {"r1", "r2"}     \* what Math.random().toString(36).substring(2) may yield

\* generateSessionId(): Math.random() part + Date.now() part
generateSessionId(r, now) == <<r, now>>

ForgedId == <<"forged", 0>>      \* an identifier the backend never generated
Ids == (RandomValues \X (0..MaxClock)) \cup {ForgedId}
NullId == <<"null", 0>>          \* the page holds no session id (sessionId = null)

\* --------------------------------------------------------------- accounts
Alice == [homeAccountId |-> "alice", tenantId |-> "tenantA", username |-> "alice@a.example"]
Bob == [homeAccountId |-> "bob", tenantId |-> "tenantB", username |-> "bob@b.example"]
NoAccount == [homeAccountId |-> "null", tenantId |-> "null", username |-> "null"]
Accounts == {Alice, Bob}

\* authorization codes a client may send; "" is a request without a code
Codes == {"codeA", "codeB", "stale", ""}
CodeAccount(code) == IF code = "codeA" THEN Alice ELSE Bob

\* what cca.acquireTokenByCode may do with a code: reject it, or return a
\* result whose account is the code's account or null (AccountInfo | null)
ExchangeOutcomes(code) ==
    IF code \in {"codeA", "codeB"}
    THEN {[ok |-> TRUE, account |-> CodeAccount(code)],
          [ok |-> TRUE, account |-> NoAccount],
          [ok |-> FALSE, account |-> NoAccount]}
    ELSE {[ok |-> FALSE, account |-> NoAccount]}

\* ------------------------------------------------- silent token acquisition
\* An error thrown by acquireTokenSilent: errorCode ("" when absent), name,
\* and the recognised substrings its message contains.
NoError == [errorCode |-> "", name |-> "", message |-> {}]
ConsentRequired == [errorCode |-> "consent_required", name |-> "InteractionRequiredAuthError",
                    message |-> {"consent_required", "AADSTS65001", "has not consented"}]
LegacyAadsts == [errorCode |-> "invalid_grant", name |-> "InteractionRequiredAuthError",
                 message |-> {"AADSTS65001"}]
ExpiredGrant == [errorCode |-> "invalid_grant", name |-> "InteractionRequiredAuthError",
                 message |-> {}]
NoAccountInSilentRequest ==
    [errorCode |-> "no_account_in_silent_request", name |-> "ClientAuthError", message |-> {}]
Errors == {ConsentRequired, LegacyAadsts, ExpiredGrant}

Succeeds == [ok |-> TRUE, error |-> NoError]
Throws(e) == [ok |-> FALSE, error |-> e]
Outcomes == {Succeeds} \cup {Throws(e) : e \in Errors}

\* a token is good for the account and the scopes it was acquired with
Token(account, scopes) == [account |-> account.homeAccountId, scopes |-> scopes]

\* the argument of one cca.acquireTokenSilent call
SilentRequest(account, scopes) ==
    [kind |-> "acquireTokenSilent", account |-> account, scopes |-> scopes]

\* a wrong reading of the scope name: the resource host instead of the last segment
ScopeResource(scope) == scope[3]

\* scope.split('/').pop()
ScopeName(scope) == scope[Len(scope)]

\* error.errorCode || error.name
ErrorCodeOf(error) == IF error.errorCode # "" THEN error.errorCode ELSE error.name

\* a classifier that takes every failure for missing consent
anyErrorIsConsent(error) == TRUE

\* a classifier that goes by the code alone and never reads the message
isConsentErrorByCode(error) ==
    ErrorCodeOf(error) \in {"consent_required", "interaction_required", "invalid_grant"}

isConsentError(error) ==
    LET errorCode == ErrorCodeOf(error)
        errorMessage == error.message
    IN  \/ errorCode = "consent_required"
        \/ errorCode = "interaction_required"
        \/ /\ errorCode = "invalid_grant"
           /\ ("AADSTS65001" \in errorMessage \/ "has not consented" \in errorMessage)

\* the URI left as it is
unencoded(uri) == uri

\* encodeURIComponent, on the characters the configured URIs contain
EncodeChar(c) == IF c = ":" THEN "%3A" ELSE IF c = "/" THEN "%2F" ELSE c
encodeURIComponent(uri) == [i \in DOMAIN uri |-> EncodeChar(uri[i])]

adminConsentUrl(tenantId, clientId, redirectUri) ==
    <<"https://login.microsoftonline.com/", tenantId, "/adminconsent?client_id=",
      clientId, "&redirect_uri=">> \o encodeURIComponent(redirectUri)

\* ------------------------------------------------------------ HTTP replies
Reply(status, body, calls) == [status |-> status, body |-> body, calls |-> calls]
InvalidSession == Reply(401, [error |-> <<"Invalid session">>], <<>>)

\* ---------------------------------------------- POST /api/auth/check-consent
\* One of the handler's two loops: try each scope in order, stop at the first
\* unexpected error.  acc carries grantedScopes, missingScopes, scopeErrors,
\* the calls made, and the error thrown out of the loop (if any).
RECURSIVE CheckScopesUnshift(_, _, _, _, _)
\* a loop that puts each scope name at the front of its list
CheckScopesUnshift(scopes, i, account, outcome, acc) ==
    IF i > Len(scopes) \/ acc.thrown THEN acc
    ELSE
        LET scope == scopes[i]
            scopeName == ScopeName(scope)
            o == outcome[scope]
            calls == Append(acc.calls, SilentRequest(account, <<scope>>))
            next ==
                IF o.ok
                THEN [acc EXCEPT !.grantedScopes = <<scopeName>> \o @, !.calls = calls]
                ELSE IF isConsentError(o.error)
                THEN [acc EXCEPT !.missingScopes = <<scopeName>> \o @,
                                 !.scopeErrors = [n \in DOMAIN @ \cup {scopeName} |->
                                     IF n = scopeName THEN ErrorCodeOf(o.error) ELSE @[n]],
                                 !.calls = calls]
                ELSE [acc EXCEPT !.thrown = TRUE,
                                 !.error = <<"Failed to check scope ", scopeName, ": ",
                                             ErrorCodeOf(o.error)>>,
                                 !.calls = calls]
        IN  CheckScopesUnshift(scopes, i + 1, account, outcome, next)

RECURSIVE CheckScopesThrough(_, _, _, _, _)
\* a loop that goes on to the remaining scopes after an unexpected error
CheckScopesThrough(scopes, i, account, outcome, acc) ==
    IF i > Len(scopes) THEN acc
    ELSE
        LET scope == scopes[i]
            scopeName == ScopeName(scope)
            o == outcome[scope]
            calls == Append(acc.calls, SilentRequest(account, <<scope>>))
            next ==
                IF acc.thrown THEN [acc EXCEPT !.calls = calls]
                ELSE IF o.ok
                THEN [acc EXCEPT !.grantedScopes = Append(@, scopeName), !.calls = calls]
                ELSE IF isConsentError(o.error)
                THEN [acc EXCEPT !.missingScopes = Append(@, scopeName),
                                 !.scopeErrors = [n \in DOMAIN @ \cup {scopeName} |->
                                     IF n = scopeName THEN ErrorCodeOf(o.error) ELSE @[n]],
                                 !.calls = calls]
                ELSE [acc EXCEPT !.thrown = TRUE,
                                 !.error = <<"Failed to check scope ", scopeName, ": ",
                                             ErrorCodeOf(o.error)>>,
                                 !.calls = calls]
        IN  CheckScopesThrough(scopes, i + 1, account, outcome, next)

RECURSIVE CheckScopes(_, _, _, _, _)
CheckScopes(scopes, i, account, outcome, acc) ==
    IF i > Len(scopes) \/ acc.thrown THEN acc
    ELSE
        LET scope == scopes[i]
            scopeName == ScopeName(scope)
            o == outcome[scope]
            calls == Append(acc.calls, SilentRequest(account, <<scope>>))
            next ==
                IF o.ok
                THEN [acc EXCEPT !.grantedScopes = Append(@, scopeName), !.calls = calls]
                ELSE IF isConsentError(o.error)
                THEN [acc EXCEPT !.missingScopes = Append(@, scopeName),
                                 !.scopeErrors = [n \in DOMAIN @ \cup {scopeName} |->
                                     IF n = scopeName THEN ErrorCodeOf(o.error) ELSE @[n]],
                                 !.calls = calls]
                ELSE [acc EXCEPT !.thrown = TRUE,
                                 !.error = <<"Failed to check scope ", scopeName, ": ",
                                             ErrorCodeOf(o.error)>>,
                                 !.calls = calls]
        IN  CheckScopes(scopes, i + 1, account, outcome, next)

EmptyCheck ==
    [grantedScopes |-> <<>>, missingScopes |-> <<>>, scopeErrors |-> <<>>,
     calls |-> <<>>, thrown |-> FALSE, error |-> <<>>]

\* a consent check that sends the admin consent URL with every result
checkConsentWithUrl(v, store, sessionId, outcome) ==
    IF sessionId \notin DOMAIN store THEN InvalidSession
    ELSE
        LET session == store[sessionId]
            afterGraph == CheckScopes(graphScopes(v), 1, session.account, outcome, EmptyCheck)
            acc == CheckScopes(tdpScopes, 1, session.account, outcome, afterGraph)
        IN  IF acc.thrown
            THEN Reply(500, [error |-> acc.error], acc.calls)
            ELSE IF session.account = NoAccount
            THEN Reply(500, [error |-> <<"Cannot read properties of null">>], acc.calls)
            ELSE Reply(200,
                       [hasConsent |-> Len(acc.missingScopes) = 0,
                        missingScopes |-> acc.missingScopes,
                        grantedScopes |-> acc.grantedScopes,
                        scopeErrors |-> acc.scopeErrors,
                        adminConsentUrl |->
                            adminConsentUrl(session.account.tenantId, ConfigClientId(v),
                                            ConfigAdminConsentRedirectUri(v))],
                       acc.calls)

checkConsent(v, store, sessionId, outcome) ==
    IF sessionId \notin DOMAIN store THEN InvalidSession
    ELSE
        LET session == store[sessionId]
            afterGraph == CheckScopes(graphScopes(v), 1, session.account, outcome, EmptyCheck)
            acc == CheckScopes(tdpScopes, 1, session.account, outcome, afterGraph)
        IN  IF acc.thrown
            THEN Reply(500, [error |-> acc.error], acc.calls)
            ELSE IF Len(acc.missingScopes) > 0
            THEN IF session.account = NoAccount
                 THEN \* session.account.tenantId throws a TypeError
                      Reply(500, [error |-> <<"Cannot read properties of null">>], acc.calls)
                 ELSE Reply(200,
                        [hasConsent |-> FALSE,
                         missingScopes |-> acc.missingScopes,
                         grantedScopes |-> acc.grantedScopes,
                         scopeErrors |-> acc.scopeErrors,
                         adminConsentUrl |->
                             adminConsentUrl(session.account.tenantId, ConfigClientId(v),
                                             ConfigAdminConsentRedirectUri(v))],
                        acc.calls)
            ELSE Reply(200, [hasConsent |-> TRUE, grantedScopes |-> acc.grantedScopes],
                       acc.calls)

\* ------------------------------------------------------ getTokenForScopes
\* a token helper that takes the account of whichever session it finds first
getTokenForAnyAccount(store, sessionId, scopes, outcome) ==
    IF sessionId \notin DOMAIN store \/ store[sessionId].account = NoAccount
    THEN [ok |-> FALSE, token |-> Token(NoAccount, scopes), error |-> NoError,
          text |-> <<"Invalid session or no account">>, calls |-> <<>>]
    ELSE
        LET others == {id \in DOMAIN store : store[id].account # store[sessionId].account}
            account == IF others = {} THEN store[sessionId].account
                       ELSE store[CHOOSE id \in others : TRUE].account
            calls == <<SilentRequest(account, scopes)>>
        IN  IF outcome.ok
            THEN [ok |-> TRUE, token |-> Token(account, scopes), error |-> NoError,
                  text |-> <<>>, calls |-> calls]
            ELSE [ok |-> FALSE, token |-> Token(NoAccount, scopes), error |-> outcome.error,
                  text |-> <<"msal: ", ErrorCodeOf(outcome.error)>>, calls |-> calls]

\* One silent acquisition for the whole scope list of a resource.
getTokenForScopes(store, sessionId, scopes, outcome) ==
    IF sessionId \notin DOMAIN store \/ store[sessionId].account = NoAccount
    THEN [ok |-> FALSE, token |-> Token(NoAccount, scopes), error |-> NoError,
          text |-> <<"Invalid session or no account">>, calls |-> <<>>]
    ELSE
        LET account == store[sessionId].account
            calls == <<SilentRequest(account, scopes)>>
        IN  IF outcome.ok
            THEN [ok |-> TRUE, token |-> Token(account, scopes), error |-> NoError,
                  text |-> <<>>, calls |-> calls]
            ELSE [ok |-> FALSE, token |-> Token(NoAccount, scopes), error |-> outcome.error,
                  text |-> <<"msal: ", ErrorCodeOf(outcome.error)>>, calls |-> calls]

\* ------------------------------------------------------- remote API calls
\* What an axios call may do: resolve (2xx), reject with the response of a
\* 409 or of another error status, or reject without a response.
ApiOk(data) == [status |-> 200, data |-> data]
ApiConflict == [status |-> 409, data |-> <<"Conflict">>]
ApiFailure == [status |-> 500, data |-> <<"Upstream failure">>]
ApiNoResponse == [status |-> 0, data |-> <<>>]
ApiErrors == {ApiConflict, ApiFailure, ApiNoResponse}

\* error.response?.data || error.message
AxiosErrorBody(api) == IF api.status # 0 /\ api.data # <<>> THEN api.data ELSE <<"Network Error">>

GraphApplicationsUrl == <<"https://graph.microsoft.com/v1.0", "/applications">>
AddPasswordUrl(objectId) ==
    <<"https://graph.microsoft.com/v1.0", "/applications/", objectId, "/addPassword">>
ImportUrl == <<"https://dev.teams.microsoft.com", "/api/appdefinitions/v2/import">>
BotFrameworkUrl == <<"https://dev.teams.microsoft.com", "/api/botframework">>
BotUpdateUrl(botId) == <<"https://dev.teams.microsoft.com", "/api/botframework/", botId>>
AppPolicyUrl == <<"https://dev.teams.microsoft.com", "/api/usersettings/mtUserAppPolicy">>

ApiCall(method, url, token, body) ==
    [kind |-> method, url |-> url, token |-> token, body |-> body]

\* ------------------------------------------- POST /api/provision/aad-app
provisionAadApp(v, store, req, tok, api) ==
    IF req.sessionId \notin DOMAIN store THEN InvalidSession
    ELSE
        LET t == getTokenForScopes(store, req.sessionId, graphScopes(v), tok)
            calls == Append(t.calls,
                        ApiCall("POST", GraphApplicationsUrl, t.token,
                                [displayName |-> req.appName,
                                 signInAudience |-> "AzureADMultipleOrgs"]))
        IN  IF ~t.ok THEN Reply(500, [error |-> t.text], t.calls)
            ELSE IF api.status = 200
            THEN Reply(200,
                       IF v = "reference"
                       THEN [clientId |-> api.data.appId, appRegistrationId |-> api.data.id]
                       ELSE [clientId |-> api.data.appId, objectId |-> api.data.id],
                       calls)
            ELSE Reply(500, [error |-> AxiosErrorBody(api)], calls)

\* --------------------------------------- POST /api/provision/client-secret
\* req.objectId is the field the handler destructures: objectId, or
\* appRegistrationId in the reference backend.
provisionClientSecret(v, store, now, req, tok, api) ==
    IF req.sessionId \notin DOMAIN store THEN InvalidSession
    ELSE
        LET t == getTokenForScopes(store, req.sessionId, graphScopes(v), tok)
            expireDate == [from |-> now, years |-> 2]
            calls == Append(t.calls,
                        ApiCall("POST", AddPasswordUrl(req.objectId), t.token,
                                [displayName |-> "default", endDateTime |-> expireDate]))
        IN  IF ~t.ok THEN Reply(500, [error |-> t.text], t.calls)
            ELSE IF api.status = 200
            THEN Reply(200, [clientSecret |-> api.data.secretText, expiresOn |-> expireDate],
                       calls)
            ELSE Reply(500, [error |-> AxiosErrorBody(api)], calls)

\* ------------------------------------------- POST /api/provision/teams-app
\* create-package sent with the token of the Graph scopes
provisionTeamsAppWithGraphToken(v, store, req, tok, api) ==
    IF req.sessionId \notin DOMAIN store THEN InvalidSession
    ELSE
        LET t == getTokenForScopes(store, req.sessionId, graphScopes(v), tok)
            zip == [manifest |-> req.manifest, color |-> "png", outline |-> "png"]
            calls == Append(t.calls, ApiCall("POST", ImportUrl, t.token, zip))
        IN  IF ~t.ok THEN Reply(500, [error |-> t.text], t.calls)
            ELSE IF api.status = 200
            THEN Reply(200, [teamsAppId |-> api.data.teamsAppId,
                             tenantId |-> api.data.tenantId], calls)
            ELSE Reply(500, [error |-> AxiosErrorBody(api)], calls)

provisionTeamsApp(v, store, req, tok, api) ==
    IF req.sessionId \notin DOMAIN store THEN InvalidSession
    ELSE
        LET t == getTokenForScopes(store, req.sessionId, tdpScopes, tok)
            zip == [manifest |-> req.manifest, color |-> "png", outline |-> "png"]
            calls == Append(t.calls, ApiCall("POST", ImportUrl, t.token, zip))
        IN  IF ~t.ok THEN Reply(500, [error |-> t.text], t.calls)
            ELSE IF api.status = 200
            THEN Reply(200, [teamsAppId |-> api.data.teamsAppId,
                             tenantId |-> api.data.tenantId], calls)
            ELSE Reply(500, [error |-> AxiosErrorBody(api)], calls)

\* ------------------------------------------------ POST /api/provision/bot
\* The update after a 409.  In the device-code backend the catch block reads
\* `token`, which is declared inside the try block: building the request
\* throws a ReferenceError and no update is sent.  The other two backends
\* fetch a token again first.
updateBot(v, store, req, createCalls, tok2, api2) ==
    IF v = "devicecode"
    THEN Reply(500, [error |-> <<"token is not defined">>], createCalls)
    ELSE
        LET t == getTokenForScopes(store, req.sessionId, tdpScopes, tok2)
            calls == createCalls \o t.calls \o
                        <<ApiCall("POST", BotUpdateUrl(req.botId), t.token,
                                  [botId |-> req.botId, name |-> req.botName,
                                   messagingEndpoint |-> req.messagingEndpoint,
                                   configuredChannels |-> <<"msteams">>])>>
        IN  IF ~t.ok THEN Reply(500, [error |-> t.text], createCalls \o t.calls)
            ELSE IF api2.status = 200
            THEN Reply(200, [success |-> TRUE, updated |-> TRUE], calls)
            ELSE Reply(500, [error |-> AxiosErrorBody(api2)], calls)

\* register-bot falling back to the update after any failed create call
provisionBotRetrying(v, store, req, tok, api, tok2, api2) ==
    IF req.sessionId \notin DOMAIN store THEN InvalidSession
    ELSE
        LET t == getTokenForScopes(store, req.sessionId, tdpScopes, tok)
            calls == Append(t.calls,
                        ApiCall("POST", BotFrameworkUrl, t.token,
                                [botId |-> req.botId, name |-> req.botName,
                                 messagingEndpoint |-> req.messagingEndpoint,
                                 configuredChannels |-> <<"msteams">>,
                                 isSingleTenant |-> TRUE]))
        IN  IF ~t.ok THEN Reply(500, [error |-> t.text], t.calls)
            ELSE IF api.status = 200 THEN Reply(200, [success |-> TRUE], calls)
            ELSE updateBot(IF v = "devicecode" THEN "confidential" ELSE v,
                           store, req, calls, tok2, api2)

\* register-bot without the reply of its last else branch
provisionBotSilentOnFailure(v, store, req, tok, api, tok2, api2) ==
    IF req.sessionId \notin DOMAIN store THEN InvalidSession
    ELSE
        LET t == getTokenForScopes(store, req.sessionId, tdpScopes, tok)
            calls == Append(t.calls,
                        ApiCall("POST", BotFrameworkUrl, t.token,
                                [botId |-> req.botId, name |-> req.botName,
                                 messagingEndpoint |-> req.messagingEndpoint,
                                 configuredChannels |-> <<"msteams">>,
                                 isSingleTenant |-> TRUE]))
        IN  IF ~t.ok THEN Reply(500, [error |-> t.text], t.calls)
            ELSE IF api.status = 200 THEN Reply(200, [success |-> TRUE], calls)
            ELSE IF api.status = 409 THEN updateBot(v, store, req, calls, tok2, api2)
            ELSE Reply(0, [error |-> <<>>], calls)

provisionBot(v, store, req, tok, api, tok2, api2) ==
    IF req.sessionId \notin DOMAIN store THEN InvalidSession
    ELSE
        LET t == getTokenForScopes(store, req.sessionId, tdpScopes, tok)
            calls == Append(t.calls,
                        ApiCall("POST", BotFrameworkUrl, t.token,
                                [botId |-> req.botId, name |-> req.botName,
                                 messagingEndpoint |-> req.messagingEndpoint,
                                 configuredChannels |-> <<"msteams">>,
                                 isSingleTenant |-> TRUE]))
        IN  IF ~t.ok THEN Reply(500, [error |-> t.text], t.calls)
            ELSE IF api.status = 200 THEN Reply(200, [success |-> TRUE], calls)
            ELSE IF api.status = 409 THEN updateBot(v, store, req, calls, tok2, api2)
            ELSE Reply(500, [error |-> AxiosErrorBody(api)], calls)

\* ------------------------------------------- POST /api/provision/complete
\* the handler without its session check
completeUnguarded(store, req) ==
    Reply(200, [success |-> TRUE, credentials |-> req.credentials], <<>>)

\* the reply with the spread after TENANT_ID: the client's fields win
completeClientTenant(store, req) ==
    IF req.sessionId \notin DOMAIN store THEN InvalidSession
    ELSE
        LET session == store[req.sessionId]
            tenantId == IF session.account # NoAccount THEN session.account.tenantId
                        ELSE "null"
            fullCredentials == [k \in DOMAIN req.credentials \cup {"TENANT_ID"} |->
                                   IF k \in DOMAIN req.credentials THEN req.credentials[k]
                                   ELSE tenantId]
        IN  Reply(200, [success |-> TRUE, credentials |-> fullCredentials], <<>>)

provisionComplete(store, req) ==
    IF req.sessionId \notin DOMAIN store THEN InvalidSession
    ELSE
        LET session == store[req.sessionId]
            tenantId == IF session.account # NoAccount THEN session.account.tenantId
                        ELSE "null"
            fullCredentials == [k \in DOMAIN req.credentials \cup {"TENANT_ID"} |->
                                   IF k = "TENANT_ID" THEN tenantId ELSE req.credentials[k]]
        IN  Reply(200, [success |-> TRUE, credentials |-> fullCredentials], <<>>)

\* ---------------------------------------------- POST /api/check-sideloading
checkSideloading(v, store, req, tok, api) ==
    IF req.sessionId \notin DOMAIN store THEN InvalidSession
    ELSE
        LET t == getTokenForScopes(store, req.sessionId, tdpScopes, tok)
            calls == Append(t.calls, ApiCall("GET", AppPolicyUrl, t.token, <<>>))
        IN  IF ~t.ok
            THEN IF /\ v = "confidential"
                    /\ ("consent_required" \in t.error.message
                        \/ "interaction_required" \in t.error.message)
                 THEN Reply(403, [error |-> <<"Teams Dev Portal access required">>,
                                  needsConsent |-> TRUE], t.calls)
                 ELSE Reply(500, [error |-> t.text], t.calls)
            ELSE IF api.status = 200
            THEN Reply(200, [isSideloadingAllowed |-> api.data,
                             status |-> IF api.data = "true" THEN "enabled"
                                        ELSE IF api.data = "false" THEN "disabled"
                                        ELSE "unknown"], calls)
            ELSE Reply(500, [error |-> <<"Request failed">>], calls)

\* ----------------------------------------------------------------- actions
\* What the previous request tells about session id sid: "denied" when it was
\* a consent check on sid that reported missing scopes, "lost" when it was a
\* restart that dropped sid.
Prior(sid) ==
    IF last.op = "auth/check-consent" /\ last.req.sessionId = sid
       /\ last.resp.status = 200 /\ ~last.resp.body.hasConsent THEN "denied"
    ELSE IF last.op = "restart" /\ sid \in last.req.lost THEN "lost"
    ELSE "none"

\* env: the outcomes of the upstream calls the handler consumed
Handled(op, req, env, reply) ==
    [op |-> op, req |-> req, env |-> env, resp |-> reply, prior |-> Prior(req.sessionId)]
NoEnv == [tok |-> Succeeds]
NoReply == Reply(0, [error |-> <<>>], <<>>)
Nothing ==
    [op |-> "none", req |-> [sessionId |-> ForgedId], env |-> NoEnv, resp |-> NoReply,
     prior |-> "none"]

HasCodeFlow(v) == v \in {"confidential", "reference"}   \* backends with the OAuth code flow

\* the session ids a client may send: live ones, ones a restart has just
\* dropped, and one the backend never generated
RequestIds == {id \in Ids : id \in DOMAIN sessions \/ id = ForgedId \/ Prior(id) = "lost"}

TokenChoices(sid) == IF sid \in DOMAIN sessions /\ sessions[sid].account # NoAccount
                     THEN Outcomes ELSE {Succeeds}

\* check-consent calls acquireTokenSilent with the stored account as it is;
\* without an account object MSAL rejects the request before any network use
SilentChoices(sid) ==
    IF sid \notin DOMAIN sessions THEN {Succeeds}
    ELSE IF sessions[sid].account = NoAccount THEN {Throws(NoAccountInSilentRequest)}
    ELSE Outcomes

\* the outcomes of a remote call that is only made with a token
ApiChoices(sid, tok, results) ==
    IF tok.ok /\ sid \in DOMAIN sessions /\ sessions[sid].account # NoAccount
    THEN results ELSE {ApiNoResponse}

\* no page loaded: step 2 disabled, no run started, nothing failed; consent
\* records a check-consent reply with hasConsent = true for the session the
\* page holds
UiIdle ==
    [frontend |-> "none", phase |-> "form", step |-> 0, sessionId |-> ForgedId,
     step2 |-> FALSE, consent |-> FALSE, poll |-> "idle", requestId |-> ForgedId,
     failedAt |-> 0, others |-> <<>>, overlap |-> 0,
     form |-> <<>>, config |-> <<>>, botEndpoint |-> <<>>,
     locals |-> [clientId |-> "undefined", objectId |-> "undefined",
                 clientSecret |-> "undefined", teamsAppId |-> "undefined"],
     credentials |-> <<>>, requests |-> <<>>, calls |-> <<>>]

Init ==
    /\ variant \in Variants
    /\ clock = 0
    /\ sessions = <<>>
    /\ issued = {}
    /\ pending = <<>>
    /\ last = Nothing
    /\ ui = UiIdle

Tick ==
    /\ clock < MaxClock
    /\ clock' = clock + 1
    /\ UNCHANGED <<variant, sessions, issued, pending, last, ui>>

\* GET /api/auth/start; u is the browser page once the reply is in
StartAuth(u) ==
    /\ HasCodeFlow(variant)
    /\ Cardinality(issued) < MaxIssued
    /\ \E r \in RandomValues, urlOk \in BOOLEAN :
          LET state == generateSessionId(r, clock) IN
          /\ issued' = IF urlOk THEN issued \cup {state} ELSE issued
          /\ last' = Handled("auth/start", [sessionId |-> ForgedId], NoEnv,
                        IF urlOk
                        THEN Reply(200, [state |-> state], <<>>)
                        ELSE Reply(500, [error |-> <<"getAuthCodeUrl failed">>], <<>>))
    /\ ui' = u
    /\ UNCHANGED <<variant, clock, sessions, pending>>

AuthStart == StartAuth(ui)

\* sessions.set(sessionId, {account, createdAt: Date.now()})
SessionsSet(store, sessionId, account, now) ==
    [id \in DOMAIN store \cup {sessionId} |->
        IF id = sessionId THEN [account |-> account, createdAt |-> now] ELSE store[id]]

\* POST /api/auth/callback
AuthCallback ==
    /\ HasCodeFlow(variant)
    /\ Cardinality(DOMAIN sessions) < MaxSessions
    /\ \E code \in Codes, state \in issued \cup {ForgedId}, r \in RandomValues :
          LET req == [sessionId |-> ForgedId, code |-> code, state |-> state] IN
          IF variant = "reference" /\ code = ""
          THEN /\ last' = Handled("auth/callback", req, NoEnv,
                             Reply(400, [error |-> <<"Missing authorization code">>], <<>>))
               /\ UNCHANGED sessions
          ELSE \E response \in ExchangeOutcomes(code) :
                 LET calls == <<[kind |-> "acquireTokenByCode", code |-> code]>>
                     sessionId == generateSessionId(r, clock)
                 IN  IF ~response.ok
                     THEN /\ last' = Handled("auth/callback", req, NoEnv,
                                        Reply(500, [error |-> <<"exchange failed">>], calls))
                          /\ UNCHANGED sessions
                     ELSE /\ sessions' = SessionsSet(sessions, sessionId, response.account, clock)
                          /\ last' = Handled("auth/callback", req, NoEnv,
                                 IF response.account = NoAccount
                                 THEN \* response.account.username throws after sessions.set
                                      Reply(500, [error |-> <<"Cannot read properties of null">>],
                                            calls)
                                 ELSE Reply(200,
                                        [sessionId |-> sessionId,
                                         userInfo |-> [username |-> response.account.username,
                                                       tenantId |-> response.account.tenantId]],
                                        calls))
    /\ UNCHANGED <<variant, clock, issued, pending, ui>>

\* ---- device-code backend: POST /api/auth/start, the MSAL promise, /api/auth/poll
Waiting == [completed |-> FALSE, failed |-> FALSE, account |-> NoAccount]
Settled == {[completed |-> TRUE, failed |-> FALSE, account |-> Alice],
            [completed |-> TRUE, failed |-> FALSE, account |-> NoAccount],
            [completed |-> TRUE, failed |-> TRUE, account |-> NoAccount]}

\* The entry is stored before the handler waits for the device code, so it
\* stays when the wait times out.
DeviceAuthStart ==
    /\ variant = "devicecode"
    /\ Cardinality(DOMAIN pending) < MaxPending
    /\ Cardinality(DOMAIN sessions) < MaxSessions
    /\ \E r \in RandomValues, timedOut \in BOOLEAN :
          LET requestId == generateSessionId(r, clock) IN
          /\ pending' = [id \in DOMAIN pending \cup {requestId} |->
                            IF id = requestId THEN Waiting ELSE pending[id]]
          /\ last' = Handled("auth/start", [sessionId |-> ForgedId], NoEnv,
                        IF timedOut
                        THEN Reply(500, [error |-> <<"Timeout waiting for device code">>], <<>>)
                        ELSE Reply(200, [requestId |-> requestId], <<>>))
    /\ UNCHANGED <<variant, clock, sessions, issued, ui>>

\* authPromise settles: the .then / .catch callbacks of /api/auth/start
DeviceAuthSettle ==
    /\ \E requestId \in DOMAIN pending, outcome \in Settled :
          /\ ~pending[requestId].completed
          /\ pending' = [pending EXCEPT ![requestId] = outcome]
    /\ UNCHANGED <<variant, clock, sessions, issued, last, ui>>

\* the request id a client polled last: clients repeat their poll
PolledBefore == IF last.op = "auth/poll" THEN {last.req.requestId} ELSE {}

\* the poll handler: its reply, and the two maps as it leaves them
authPoll(pend, store, requestId, sessionId, now) ==
    IF requestId \notin DOMAIN pend
    THEN [reply |-> Reply(400, [error |-> <<"Invalid request ID">>], <<>>),
          sessions |-> store, pending |-> pend]
    ELSE LET requestInfo == pend[requestId]
             rest == [id \in DOMAIN pend \ {requestId} |-> pend[id]]
         IN  IF ~requestInfo.completed
             THEN [reply |-> Reply(200, [pending |-> TRUE], <<>>),
                   sessions |-> store, pending |-> pend]
             ELSE IF requestInfo.failed
             THEN [reply |-> Reply(500, [error |-> <<"device code flow failed">>], <<>>),
                   sessions |-> store, pending |-> rest]
             ELSE [reply |->
                      IF requestInfo.account = NoAccount
                      THEN \* account.username throws after the session is stored
                           Reply(500, [error |-> <<"Cannot read properties of null">>], <<>>)
                      ELSE Reply(200,
                             [sessionId |-> sessionId,
                              userInfo |-> [username |-> requestInfo.account.username,
                                            tenantId |-> requestInfo.account.tenantId]],
                             <<>>),
                   sessions |-> SessionsSet(store, sessionId, requestInfo.account, now),
                   pending |-> rest]

\* a poll that leaves the request it turned into a session in the map
DeviceAuthPollKeeping ==
    /\ variant = "devicecode"
    /\ \E requestId \in DOMAIN pending \cup PolledBefore \cup {ForgedId}, r \in RandomValues :
          LET out == authPoll(pending, sessions, requestId, generateSessionId(r, clock), clock)
          IN  /\ last' = Handled("auth/poll", [sessionId |-> ForgedId, requestId |-> requestId],
                                 NoEnv, out.reply)
              /\ sessions' = out.sessions
              /\ pending' = IF out.sessions # sessions THEN pending ELSE out.pending
    /\ UNCHANGED <<variant, clock, issued, ui>>

\* POST /api/auth/poll
DeviceAuthPoll ==
    /\ variant = "devicecode"
    /\ \E requestId \in DOMAIN pending \cup PolledBefore \cup {ForgedId}, r \in RandomValues :
          LET out == authPoll(pending, sessions, requestId, generateSessionId(r, clock), clock)
          IN  /\ last' = Handled("auth/poll", [sessionId |-> ForgedId, requestId |-> requestId],
                                 NoEnv, out.reply)
              /\ sessions' = out.sessions
              /\ pending' = out.pending
    /\ UNCHANGED <<variant, clock, issued, ui>>

\* the backend process restarts: its in-memory maps start empty
Restart ==
    /\ DOMAIN sessions # {}
    /\ sessions' = <<>>
    /\ pending' = <<>>
    /\ last' = [op |-> "restart", req |-> [sessionId |-> ForgedId, lost |-> DOMAIN sessions],
                env |-> NoEnv, resp |-> NoReply, prior |-> "none"]
    /\ UNCHANGED <<variant, clock, issued, ui>>

\* a consent check that refreshes the session it looks up
CheckConsentTouching ==
    /\ HasCodeFlow(variant)
    /\ \E sessionId \in RequestIds :
       \E outcome \in [Range(graphScopes(variant)) \cup Range(tdpScopes)
                            -> SilentChoices(sessionId)] :
          /\ last' = Handled("auth/check-consent", [sessionId |-> sessionId],
                        [outcome |-> outcome],
                        checkConsent(variant, sessions, sessionId, outcome))
          /\ sessions' = IF sessionId \in DOMAIN sessions
                         THEN [sessions EXCEPT ![sessionId].createdAt = clock]
                         ELSE sessions
    /\ UNCHANGED <<variant, clock, issued, pending, ui>>

\* POST /api/auth/check-consent
CheckConsent ==
    /\ HasCodeFlow(variant)
    /\ \E sessionId \in RequestIds :
       \E outcome \in [Range(graphScopes(variant)) \cup Range(tdpScopes)
                            -> SilentChoices(sessionId)] :
          last' = Handled("auth/check-consent", [sessionId |-> sessionId],
                     [outcome |-> outcome],
                     checkConsent(variant, sessions, sessionId, outcome))
    /\ UNCHANGED <<variant, clock, sessions, issued, pending, ui>>

\* POST /api/check-sideloading
CheckSideloading ==
    /\ HasCodeFlow(variant)
    /\ \E sessionId \in RequestIds :
       \E tok \in TokenChoices(sessionId) :
       \E api \in ApiChoices(sessionId, tok,
                    {ApiOk("true"), ApiOk("false"), ApiOk("undefined"), ApiFailure}) :
          last' = Handled("check-sideloading", [sessionId |-> sessionId],
                     [tok |-> tok, api |-> api],
                     checkSideloading(variant, sessions, [sessionId |-> sessionId], tok, api))
    /\ UNCHANGED <<variant, clock, sessions, issued, pending, ui>>

GraphApp == [appId |-> "client-1", id |-> "object-1"]
GraphSecret == [secretText |-> "secret-1"]
TdpApp == [teamsAppId |-> "teamsapp-1", tenantId |-> "tenantA"]

\* messaging endpoints a client may supply
HttpsEndpoint == <<"https", ":", "/", "/", "bot.example">>
HttpEndpoint == <<"http", ":", "/", "/", "bot.example">>

\* POST /api/provision/aad-app
ProvisionAadApp ==
    /\ \E sessionId \in RequestIds :
       \E tok \in TokenChoices(sessionId) :
       \E api \in ApiChoices(sessionId, tok,
                    {ApiOk(GraphApp), ApiConflict, ApiFailure, ApiNoResponse}) :
          LET req == [sessionId |-> sessionId, appName |-> "MyBot"] IN
          last' = Handled("provision/aad-app", req, [tok |-> tok, api |-> api],
                     provisionAadApp(variant, sessions, req, tok, api))
    /\ UNCHANGED <<variant, clock, sessions, issued, pending, ui>>

\* POST /api/provision/client-secret
ProvisionClientSecret ==
    /\ \E sessionId \in RequestIds :
       \E tok \in TokenChoices(sessionId) :
       \E api \in ApiChoices(sessionId, tok,
                    {ApiOk(GraphSecret), ApiConflict, ApiFailure, ApiNoResponse}) :
          LET req == [sessionId |-> sessionId, objectId |-> "object-1"] IN
          last' = Handled("provision/client-secret", req, [tok |-> tok, api |-> api],
                     provisionClientSecret(variant, sessions, clock, req, tok, api))
    /\ UNCHANGED <<variant, clock, sessions, issued, pending, ui>>

Manifest(id, botId, name) == [id |-> id, botId |-> botId, name |-> name]

\* POST /api/provision/teams-app
ProvisionTeamsApp ==
    /\ \E sessionId \in RequestIds :
       \E tok \in TokenChoices(sessionId) :
       \E api \in ApiChoices(sessionId, tok,
                    {ApiOk(TdpApp), ApiConflict, ApiFailure, ApiNoResponse}) :
          LET req == [sessionId |-> sessionId,
                      manifest |-> Manifest("client-1", "client-1", "MyBot")]
          IN
          last' = Handled("provision/teams-app", req, [tok |-> tok, api |-> api],
                     provisionTeamsApp(variant, sessions, req, tok, api))
    /\ UNCHANGED <<variant, clock, sessions, issued, pending, ui>>

BotRequest(sessionId, botId, botName, messagingEndpoint) ==
    [sessionId |-> sessionId, botId |-> botId, botName |-> botName,
     messagingEndpoint |-> messagingEndpoint]

\* POST /api/provision/bot
ProvisionBot ==
    /\ \E sessionId \in RequestIds, messagingEndpoint \in {HttpsEndpoint, HttpEndpoint} :
       \E tok \in TokenChoices(sessionId) :
       \E api \in ApiChoices(sessionId, tok,
                    {ApiOk(<<>>), ApiConflict, ApiFailure, ApiNoResponse}) :
       \E tok2 \in (IF api = ApiConflict /\ variant # "devicecode"
                    THEN TokenChoices(sessionId) ELSE {Succeeds}) :
       \E api2 \in (IF api = ApiConflict /\ variant # "devicecode"
                    THEN ApiChoices(sessionId, tok2, {ApiOk(<<>>), ApiConflict, ApiFailure})
                    ELSE {ApiNoResponse}) :
          LET req == BotRequest(sessionId, "client-1", "MyBot", messagingEndpoint) IN
          last' = Handled("provision/bot", req,
                     [tok |-> tok, api |-> api, tok2 |-> tok2, api2 |-> api2],
                     provisionBot(variant, sessions, req, tok, api, tok2, api2))
    /\ UNCHANGED <<variant, clock, sessions, issued, pending, ui>>

\* credentials objects a client may send to /api/provision/complete
ClientCredentials ==
    {[CLIENT_ID |-> "client-1", CLIENT_SECRET |-> "secret-1"],
     [CLIENT_ID |-> "client-1", TENANT_ID |-> "tenantB"]}

\* POST /api/provision/complete
ProvisionComplete ==
    /\ variant # "reference"
    /\ \E sessionId \in RequestIds, credentials \in ClientCredentials :
          LET req == [sessionId |-> sessionId, credentials |-> credentials] IN
          last' = Handled("provision/complete", req, NoEnv, provisionComplete(sessions, req))
    /\ UNCHANGED <<variant, clock, sessions, issued, pending, ui>>

\* No axios call is given a timeout and the server sets none on its replies:
\* when the remote API never answers, the handler stays at its await, having
\* made its calls, and the request gets no reply.
ApiPending == [status |-> 0, data |-> <<"pending">>]
Unanswered(calls) == Reply(0, [error |-> <<>>], calls)

RemoteNeverAnswers ==
    /\ \E sessionId \in DOMAIN sessions :
          /\ sessions[sessionId].account # NoAccount
          /\ \/ LET req == [sessionId |-> sessionId, appName |-> "MyBot"] IN
                 last' = Handled("provision/aad-app", req,
                            [tok |-> Succeeds, api |-> ApiPending],
                            Unanswered(provisionAadApp(variant, sessions, req, Succeeds,
                                                       ApiFailure).calls))
             \/ LET req == [sessionId |-> sessionId, objectId |-> "object-1"] IN
                 last' = Handled("provision/client-secret", req,
                            [tok |-> Succeeds, api |-> ApiPending],
                            Unanswered(provisionClientSecret(variant, sessions, clock, req,
                                                             Succeeds, ApiFailure).calls))
             \/ LET req == [sessionId |-> sessionId,
                            manifest |-> Manifest("client-1", "client-1", "MyBot")] IN
                 last' = Handled("provision/teams-app", req,
                            [tok |-> Succeeds, api |-> ApiPending],
                            Unanswered(provisionTeamsApp(variant, sessions, req, Succeeds,
                                                         ApiFailure).calls))
             \/ LET req == BotRequest(sessionId, "client-1", "MyBot", HttpsEndpoint) IN
                 last' = Handled("provision/bot", req,
                            [tok |-> Succeeds, api |-> ApiPending,
                             tok2 |-> Succeeds, api2 |-> ApiNoResponse],
                            Unanswered(provisionBot(variant, sessions, req, Succeeds,
                                                    ApiFailure, Succeeds, ApiNoResponse).calls))
             \/ /\ HasCodeFlow(variant)
                /\ LET req == [sessionId |-> sessionId] IN
                   last' = Handled("check-sideloading", req,
                              [tok |-> Succeeds, api |-> ApiPending],
                              Unanswered(checkSideloading(variant, sessions, req, Succeeds,
                                                          ApiFailure).calls))
    /\ UNCHANGED <<variant, clock, sessions, issued, pending, ui>>

\* ------------------------------------------------------- browser frontends
\* The frontend that ships with each backend.  The confidential backend has
\* two: the wizard (app.js) and the one AUTHENTICATION.md documents.
Frontends(v) ==
    IF v = "confidential" THEN {"wizard", "documented"}
    ELSE IF v = "reference" THEN {"reference"}
    ELSE {"archived"}

EmptyEndpoint == <<>>
FormEndpoints == {HttpsEndpoint, HttpEndpoint, EmptyEndpoint}
ApiMessagesPath == <<"/", "api", "/", "messages">>

\* botEndpoint.startsWith('https://')
startsWithHttps(endpoint) ==
    /\ Len(endpoint) >= 4
    /\ SubSeq(endpoint, 1, 4) = <<"https", ":", "/", "/">>

\* body.key of a parsed JSON reply: undefined when the key is absent
Field(body, key) == IF key \in DOMAIN body THEN body[key] ELSE "undefined"

\* object[key] = value
Assign(object, key, value) ==
    [k \in DOMAIN object \cup {key} |-> IF k = key THEN value ELSE object[k]]

\* The steps of a provisioning run, in the order the code awaits them; only
\* the two wizards call /api/provision/complete.
StepOps == <<"provision/aad-app", "provision/client-secret", "provision/teams-app",
             "provision/bot", "provision/complete">>
TotalSteps(kind) == IF kind \in {"wizard", "documented"} THEN 5 ELSE 4

\* the wizard never looks at response.ok; the others throw on a reply that is
\* not ok, except for the reply of /api/provision/complete
ChecksReply(kind, step) == kind # "wizard" /\ step <= 4

CredentialNames(kind) ==
    IF kind \in {"wizard", "documented"}
    THEN <<"CLIENT_ID", "CLIENT_SECRET", "TEAMS_APP_ID", "BOT_ENDPOINT">>
    ELSE <<"clientId", "clientSecret", "teamsAppId", "botEndpoint">>

\* the messaging endpoint the frontend sends to /api/provision/bot
MessagingEndpoint(kind, botEndpoint) ==
    IF kind = "archived" THEN botEndpoint \o ApiMessagesPath ELSE botEndpoint

\* the body of the request a run sends at a step
StepRequest(u, step) ==
    IF step = 1 THEN [sessionId |-> u.sessionId, appName |-> "MyBot"]
    ELSE IF step = 2 THEN [sessionId |-> u.sessionId, objectId |-> u.locals.objectId]
    ELSE IF step = 3
    THEN [sessionId |-> u.sessionId,
          manifest |-> Manifest(IF u.frontend = "archived" THEN "uuid-1"
                                ELSE u.locals.clientId,
                                u.locals.clientId, "MyBot")]
    ELSE IF step = 4
    THEN BotRequest(u.sessionId, u.locals.clientId, "MyBot",
                    MessagingEndpoint(u.frontend, u.botEndpoint))
    ELSE [sessionId |-> u.sessionId, credentials |-> u.credentials]

\* the backend handling the request of a step
StepReply(v, store, now, step, req, api) ==
    IF step = 1 THEN provisionAadApp(v, store, req, Succeeds, api)
    ELSE IF step = 2 THEN provisionClientSecret(v, store, now, req, Succeeds, api)
    ELSE IF step = 3 THEN provisionTeamsApp(v, store, req, Succeeds, api)
    ELSE IF step = 4 THEN provisionBot(v, store, req, Succeeds, api, Succeeds, ApiOk(<<>>))
    ELSE provisionComplete(store, req)

\* what the remote API of a step may answer
StepApis(step) ==
    IF step = 1 THEN {ApiOk(GraphApp), ApiFailure}
    ELSE IF step = 2 THEN {ApiOk(GraphSecret), ApiFailure}
    ELSE IF step = 3 THEN {ApiOk(TdpApp), ApiFailure}
    ELSE IF step = 4 THEN {ApiOk(<<>>), ApiConflict, ApiFailure}
    ELSE {ApiNoResponse}

\* the frontend after the reply of a step that did not throw
AfterStep(u, step, reply, tenantId) ==
    LET names == CredentialNames(u.frontend)
        body == reply.body
        locals ==
            IF step = 1
            THEN [u.locals EXCEPT
                    !.clientId = Field(body, "clientId"),
                    !.objectId = Field(body, IF u.frontend = "reference"
                                             THEN "appRegistrationId" ELSE "objectId")]
            ELSE IF step = 2 THEN [u.locals EXCEPT !.clientSecret = Field(body, "clientSecret")]
            ELSE IF step = 3 THEN [u.locals EXCEPT !.teamsAppId = Field(body, "teamsAppId")]
            ELSE u.locals
        credentials ==
            IF u.frontend = "reference"
            THEN IF step = 4
                 THEN \* displayResults({botId, botPassword, teamsAppId, tenantId})
                      [botId |-> locals.clientId, botPassword |-> locals.clientSecret,
                       teamsAppId |-> locals.teamsAppId, tenantId |-> tenantId]
                 ELSE u.credentials
            ELSE IF step = 1 THEN Assign(u.credentials, names[1], locals.clientId)
            ELSE IF step = 2 THEN Assign(u.credentials, names[2], locals.clientSecret)
            ELSE IF step = 3 THEN Assign(u.credentials, names[3], locals.teamsAppId)
            ELSE IF step = 4
            THEN Assign(u.credentials, names[4], MessagingEndpoint(u.frontend, u.botEndpoint))
            ELSE Assign(u.credentials, "TENANT_ID", body.credentials.TENANT_ID)
    IN  [u EXCEPT !.locals = locals, !.credentials = credentials,
                  !.step = IF step = TotalSteps(u.frontend) THEN 0 ELSE step + 1,
                  !.phase = IF step = TotalSteps(u.frontend) THEN "done" ELSE @]

\* One invocation of the async run function: the step it awaits and its own
\* local variables, with the requests it has sent and the remote calls they
\* caused.  ui.step, ui.locals, ui.botEndpoint, ui.requests and ui.calls are
\* the invocation whose continuation runs next; ui.others holds the other
\* ones in flight.
RunOf(u) ==
    [step |-> u.step, locals |-> u.locals, botEndpoint |-> u.botEndpoint,
     requests |-> u.requests, calls |-> u.calls]
InFlight(u) == (IF u.step > 0 THEN 1 ELSE 0) + Len(u.others)

\* the event loop resumes the i-th of the other invocations
Focus(u, i) ==
    LET rest == [j \in 1..(Len(u.others) - 1) |->
                    IF j < i THEN u.others[j] ELSE u.others[j + 1]]
    IN  [u EXCEPT !.step = u.others[i].step, !.locals = u.others[i].locals,
                  !.botEndpoint = u.others[i].botEndpoint,
                  !.requests = u.others[i].requests, !.calls = u.others[i].calls,
                  !.others = IF u.step > 0 THEN Append(rest, RunOf(u)) ELSE rest]
Resumable(u) == (IF u.step > 0 THEN {u} ELSE {}) \cup {Focus(u, i) : i \in DOMAIN u.others}

\* a retry that picks the run up at the step that failed
ResumeRun(u, botEndpoint) ==
    [u EXCEPT !.phase = "running", !.step = IF u.failedAt > 0 THEN u.failedAt ELSE 1,
              !.botEndpoint = botEndpoint, !.requests = <<>>, !.calls = <<>>,
              !.others = IF u.step > 0 THEN Append(@, RunOf(u)) ELSE @]

\* a run begins: the arguments of runProvisioning / startProvisioning; an
\* invocation still in flight keeps going
BeginRun(u, botEndpoint) ==
    [u EXCEPT !.phase = "running", !.step = 1, !.botEndpoint = botEndpoint,
              !.locals = UiIdle.locals, !.requests = <<>>, !.calls = <<>>,
              !.others = IF u.step > 0 THEN Append(@, RunOf(u)) ELSE @]

\* the start button can be clicked: btn-provision is not disabled (reference),
\* step-2 is not disabled (the others)
StartEnabled(u) ==
    IF u.frontend = "reference" THEN u.step2 /\ u.phase \in {"form", "error"}
    ELSE u.step2

\* what the page makes of a check-consent reply: step 2 is enabled when
\* consent is granted, the documented frontend disables it when scopes are
\* missing, and a 401 or 403 forgets the session
ConsentCheckedKeeping(u, reply) ==
    IF reply.status # 200 THEN u
    ELSE IF reply.body.hasConsent THEN [u EXCEPT !.step2 = TRUE, !.consent = TRUE]
    ELSE IF u.frontend = "documented" THEN [u EXCEPT !.step2 = FALSE]
    ELSE u

ConsentChecked(u, reply) ==
    IF reply.status \in {401, 403} THEN [u EXCEPT !.sessionId = NullId, !.consent = FALSE]
    ELSE IF reply.status # 200 THEN u
    ELSE IF reply.body.hasConsent THEN [u EXCEPT !.step2 = TRUE, !.consent = TRUE]
    ELSE IF u.frontend = "documented" THEN [u EXCEPT !.step2 = FALSE]
    ELSE u

\* what each scope's silent acquisition can answer to a browser's check
ConsentOutcomes(sessionId) ==
    [Range(graphScopes(variant)) \cup Range(tdpScopes)
        -> SilentChoices(sessionId) \cap {Succeeds, Throws(ConsentRequired),
                                         Throws(NoAccountInSilentRequest)}]

\* DOMContentLoaded with a session id in localStorage (the archived frontend:
\* pollForAuth gets its session).  The wizard and the archived frontend
\* enable step 2 at once; the documented frontend checks consent first; the
\* reference frontend waits for Check Scopes.
OpenPage ==
    /\ ui.frontend = "none"
    /\ \E kind \in Frontends(variant), sid \in DOMAIN sessions \cup {ForgedId} :
          LET opened == [UiIdle EXCEPT !.frontend = kind, !.sessionId = sid,
                                       !.step2 = kind \in {"wizard", "archived"}]
          IN  IF kind = "documented"
              THEN \E outcome \in ConsentOutcomes(sid) :
                      LET reply == checkConsent(variant, sessions, sid, outcome) IN
                      /\ last' = Handled("auth/check-consent", [sessionId |-> sid],
                                         [outcome |-> outcome], reply)
                      /\ ui' = ConsentChecked(opened, reply)
              ELSE /\ ui' = opened
                   /\ UNCHANGED last
    /\ UNCHANGED <<variant, clock, sessions, issued, pending>>

\* btn-start-provision (wizard, documented, archived) and btn-provision
\* (reference, which enables the button again after an error)
StartProvisioning ==
    /\ StartEnabled(ui)
    /\ InFlight(ui) < MaxRuns
    /\ \E botEndpoint \in FormEndpoints :
          /\ LET kind == ui.frontend
                 clicked == [ui EXCEPT
                               !.form = botEndpoint, !.requests = <<>>, !.calls = <<>>]
             IN  IF botEndpoint = EmptyEndpoint
                    \/ (kind # "reference" /\ ~startsWithHttps(botEndpoint))
                 THEN ui' = clicked               \* alert(...) and return
                 ELSE ui' = BeginRun([clicked EXCEPT
                                        !.step2 = IF kind = "reference" THEN @ ELSE FALSE,
                                        !.config = IF kind = "archived" THEN botEndpoint
                                                   ELSE @],
                                     botEndpoint)
    /\ UNCHANGED <<variant, clock, sessions, issued, pending, last>>

\* one awaited step of runProvisioning / startProvisioning, of any of the
\* invocations in flight; ui.overlap counts the steps taken while more than
\* one invocation is in flight
ProvisionStep ==
    /\ InFlight(ui) > 1 => ui.overlap < MaxOverlap
    /\ \E u0 \in Resumable(ui), rejected \in BOOLEAN :
       LET u == [u0 EXCEPT !.overlap = IF InFlight(ui) > 1 THEN @ + 1 ELSE @] IN
       \E api \in (IF rejected THEN {ApiNoResponse} ELSE StepApis(u.step)) :
          LET step == u.step
              req == StepRequest(u, step)
              reply == StepReply(variant, sessions, clock, step, req, api)
              answered == [u EXCEPT
                             !.requests = Append(@, [op |-> StepOps[step],
                                                     status |-> reply.status]),
                             !.calls = @ \o reply.calls]
              failed == [answered EXCEPT !.phase = "error", !.step = 0, !.failedAt = step]
              tenantId == IF u.sessionId \in DOMAIN sessions
                          THEN sessions[u.sessionId].account.tenantId ELSE "undefined"
          IN  IF rejected
              THEN \* fetch rejects: the run ends in its catch block
                   /\ ui' = [u EXCEPT !.phase = "error", !.step = 0, !.failedAt = step]
                   /\ UNCHANGED last
              ELSE /\ last' = Handled(StepOps[step], req, [tok |-> Succeeds, api |-> api],
                                      reply)
                   /\ ui' = IF ChecksReply(u.frontend, step) /\ reply.status # 200
                            THEN failed
                            ELSE IF step = 5 /\ "credentials" \notin DOMAIN reply.body
                            THEN failed  \* complete.credentials.TENANT_ID throws
                            ELSE AfterStep(answered, step, reply, tenantId)
    /\ UNCHANGED <<variant, clock, sessions, issued, pending>>

\* btn-retry: the wizards read the form again, the archived frontend uses
\* the configuration it captured
RetryProvisioning ==
    /\ ui.phase = "error"
    /\ InFlight(ui) < MaxRuns
    /\ ui.frontend \in {"wizard", "documented", "archived"}
    /\ ui' = BeginRun(ui, IF ui.frontend = "archived" THEN ui.config ELSE ui.form)
    /\ UNCHANGED <<variant, clock, sessions, issued, pending, last>>

\* btn-start-over: forget the session and reload the page
StartOver ==
    /\ ui.frontend \in {"wizard", "documented"}
    /\ InFlight(ui) = 0
    /\ ui' = UiIdle
    /\ UNCHANGED <<variant, clock, sessions, issued, pending, last>>

Next ==
    \/ Tick
    \/ AuthCallback
    \/ DeviceAuthStart
    \/ DeviceAuthSettle
    \/ DeviceAuthPoll
    \/ Restart
    \/ CheckConsent
    \/ CheckSideloading
    \/ ProvisionAadApp
    \/ ProvisionClientSecret
    \/ ProvisionTeamsApp
    \/ ProvisionBot
    \/ ProvisionComplete
    \/ RemoteNeverAnswers

Spec == Init /\ [][Next]_vars

\* the sign-in flows alone: state issuance, callback, polling, restart
NextAuth ==
    \/ Tick
    \/ AuthStart
    \/ AuthCallback
    \/ DeviceAuthStart
    \/ DeviceAuthSettle
    \/ DeviceAuthPoll
    \/ Restart
    \/ ProvisionComplete

SpecAuth == Init /\ [][NextAuth]_vars

\* a browser driving its backend: one user signs in, opens the page, checks
\* consent before the first run (SpecTab has the checks made during and after
\* runs), then provisions
SignedOut == ui.frontend = "none" /\ DOMAIN sessions = {}

\* btn-check-scopes of the documented and the reference frontend.  With a
\* session the page checks consent.  Without one the documented page asks for
\* the sign-in URL, navigates away and returns; checkScopes of the reference
\* page awaits authenticate(), which asks for the URL and sets the location,
\* and then goes on to send its consent check with sessionId null before the
\* page is gone.
CheckScopesClick ==
    /\ ui.frontend \in {"documented", "reference"}
    /\ IF ui.sessionId # NullId
       THEN /\ \E outcome \in ConsentOutcomes(ui.sessionId) :
                  LET req == [sessionId |-> ui.sessionId]
                      reply == checkConsent(variant, sessions, ui.sessionId, outcome)
                  IN  /\ last' = Handled("auth/check-consent", req,
                                         [outcome |-> outcome], reply)
                      /\ ui' = ConsentChecked(ui, reply)
            /\ UNCHANGED <<variant, clock, sessions, issued, pending>>
       ELSE IF ui.frontend = "documented"
       THEN StartAuth(UiIdle)
       ELSE /\ Cardinality(issued) < MaxIssued
            /\ \E r \in RandomValues, urlOk \in BOOLEAN,
                  outcome \in ConsentOutcomes(NullId) :
                  LET state == generateSessionId(r, clock)
                      reply == checkConsent(variant, sessions, NullId, outcome)
                  IN  /\ issued' = IF urlOk THEN issued \cup {state} ELSE issued
                      /\ last' = Handled("auth/check-consent", [sessionId |-> NullId],
                                         [outcome |-> outcome,
                                          authStart |-> IF urlOk THEN 200 ELSE 500],
                                         reply)
            /\ ui' = UiIdle
            /\ UNCHANGED <<variant, clock, sessions, pending>>

NextUI ==
    \/ SignedOut /\ AuthCallback
    \/ SignedOut /\ DeviceAuthStart
    \/ DeviceAuthSettle
    \/ SignedOut /\ DeviceAuthPoll
    \/ Restart
    \/ OpenPage
    \/ ui.phase = "form" /\ CheckScopesClick
    \/ StartProvisioning
    \/ ProvisionStep
    \/ RetryProvisioning
    \/ StartOver

SpecUI == Init /\ [][NextUI]_vars

\* one browser tab of the documented frontend, its user signed in and the
\* consent check of the page load granted: every
\* button of the page short of Start Over, in any order
InitTab ==
    /\ variant = "confidential"
    /\ clock = 0
    /\ sessions = SessionsSet(<<>>, generateSessionId("r1", 0), Alice, 0)
    /\ issued = {}
    /\ pending = <<>>
    /\ last = Nothing
    /\ ui = [UiIdle EXCEPT !.frontend = "documented", !.step2 = TRUE, !.consent = TRUE,
                           !.sessionId = generateSessionId("r1", 0)]

NextTab ==
    \/ CheckScopesClick
    \/ StartProvisioning
    \/ ProvisionStep
    \/ RetryProvisioning

SpecTab == InitTab /\ [][NextTab]_vars

\* ---- the archived frontend signing in with a device code
\* btn-auth: POST /api/auth/start; with the device code in hand the page
\* disables the button and starts pollForAuth, otherwise it alerts
AuthClick ==
    /\ variant = "devicecode"
    /\ ui.frontend = "none"
    /\ ui.poll = "idle"
    /\ Cardinality(DOMAIN pending) < MaxPending
    /\ Cardinality(DOMAIN sessions) < MaxSessions
    /\ \E r \in RandomValues, timedOut \in BOOLEAN :
          LET requestId == generateSessionId(r, clock) IN
          /\ pending' = [id \in DOMAIN pending \cup {requestId} |->
                            IF id = requestId THEN Waiting ELSE pending[id]]
          /\ last' = Handled("auth/start", [sessionId |-> ForgedId], NoEnv,
                        IF timedOut
                        THEN Reply(500, [error |-> <<"Timeout waiting for device code">>], <<>>)
                        ELSE Reply(200, [requestId |-> requestId], <<>>))
          /\ ui' = IF timedOut THEN ui
                   ELSE [ui EXCEPT !.poll = "polling", !.requestId = requestId]
    /\ UNCHANGED <<variant, clock, sessions, issued>>

\* what poll() makes of a reply: wait and poll again, take the session and
\* enable step 2, or alert and enable btn-auth again
Polled(u, reply) ==
    IF "pending" \in DOMAIN reply.body THEN u
    ELSE IF reply.status = 200 /\ "sessionId" \in DOMAIN reply.body
    THEN [u EXCEPT !.frontend = "archived", !.sessionId = reply.body.sessionId,
                   !.step2 = TRUE, !.poll = "done"]
    ELSE [u EXCEPT !.poll = "idle"]

\* one round of poll(): POST /api/auth/poll and its reply
PollStep ==
    /\ ui.poll = "polling"
    /\ \E r \in RandomValues :
          LET out == authPoll(pending, sessions, ui.requestId,
                              generateSessionId(r, clock), clock)
          IN  /\ last' = Handled("auth/poll",
                                 [sessionId |-> ForgedId, requestId |-> ui.requestId],
                                 NoEnv, out.reply)
              /\ sessions' = out.sessions
              /\ pending' = out.pending
              /\ ui' = Polled(ui, out.reply)
    /\ UNCHANGED <<variant, clock, issued>>

\* the device-code sign-in of the archived frontend and the runs after it;
\* the backend keeps running and every poll is answered
InitPoll == Init /\ variant = "devicecode"

NextPoll ==
    \/ Tick
    \/ AuthClick
    \/ DeviceAuthSettle
    \/ PollStep
    \/ StartProvisioning
    \/ ProvisionStep
    \/ RetryProvisioning

SpecPoll == InitPoll /\ [][NextPoll]_vars /\ WF_vars(PollStep)

\* ------------------------------------------------------------------ claims
CheckedConsent == last.op = "auth/check-consent" /\ last.resp.status # 401

\* the failures that mean "consent is missing": consent_required, and the
\* legacy invalid_grant whose message carries AADSTS65001
ConsentFailures == {ConsentRequired, LegacyAadsts}
FailedForConsent(o) == ~o.ok /\ o.error \in ConsentFailures
FailedUnexpectedly(o) == ~o.ok /\ o.error \notin ConsentFailures

\* the scopes the consent check of a backend goes through, in order
RequiredScopes(v) == graphScopes(v) \o tdpScopes
LastSegment(scope) ==
    IF scope = GraphAppScope THEN "Application.ReadWrite.All"
    ELSE IF scope = GraphInstallScope THEN "TeamsAppInstallation.ReadForUser"
    ELSE "AppDefinitions.ReadWrite"

\* C1: when the silent acquisition of any required scope fails with an error
\* that is not a consent error, the consent check answers 500 with a body that
\* holds nothing but the error: no granted list, no missing list, no consent
\* URL, whatever the earlier scopes gave.
C1_UnexpectedFailureFailsCheck ==
    (/\ CheckedConsent
     /\ \E sc \in DOMAIN last.env.outcome : FailedUnexpectedly(last.env.outcome[sc]))
        => /\ last.resp.status = 500
           /\ DOMAIN last.resp.body = {"error"}

\* a scope was granted, the next one failed unexpectedly, and the check failed
C1_Witness ==
    /\ CheckedConsent
    /\ last.env.outcome[GraphAppScope].ok
    /\ last.env.outcome[TdpScope] = Throws(ExpiredGrant)
    /\ last.resp.status = 500
    /\ Len(last.resp.calls) = 2

\* the percent-encoded consent redirect URI of each backend
EncodedConsentRedirect(v) ==
    IF v = "confidential"
    THEN <<"https", "%3A", "%2F", "%2F", "3hvfdfhp-8080.usw2.devtunnels.ms", "%2F",
           "admin-consent-callback.html">>
    ELSE <<"http", "%3A", "%2F", "%2F", "localhost", "%3A", "8080", "%2F",
           "admin-consent-callback.html">>

\* C2: when some required scope fails with a consent error and none fails
\* unexpectedly, the check answers hasConsent = false, every such scope is in
\* missingScopes and not in grantedScopes, and adminConsentUrl is made of the
\* tenant id of the account stored under the session, the configured client id
\* and the percent-encoded consent redirect URI.
C2_ConsentMissingReported ==
    (/\ CheckedConsent
     /\ \E sc \in DOMAIN last.env.outcome : FailedForConsent(last.env.outcome[sc])
     /\ \A sc \in DOMAIN last.env.outcome : ~FailedUnexpectedly(last.env.outcome[sc]))
        => /\ last.resp.status = 200
           /\ ~last.resp.body.hasConsent
           /\ \A sc \in DOMAIN last.env.outcome :
                 FailedForConsent(last.env.outcome[sc])
                    => /\ LastSegment(sc) \in Range(last.resp.body.missingScopes)
                       /\ LastSegment(sc) \notin Range(last.resp.body.grantedScopes)
           /\ last.resp.body.adminConsentUrl =
                 <<"https://login.microsoftonline.com/",
                   sessions[last.req.sessionId].account.tenantId,
                   "/adminconsent?client_id=", ConfigClientId(variant), "&redirect_uri=">>
                 \o EncodedConsentRedirect(variant)

\* Bob's session: the Graph scope is granted, the Teams Developer Portal scope
\* lacks consent, and the URL names Bob's tenant
C2_Witness ==
    /\ CheckedConsent
    /\ last.resp.status = 200
    /\ ~last.resp.body.hasConsent
    /\ last.resp.body.missingScopes = <<"AppDefinitions.ReadWrite">>
    /\ last.resp.body.grantedScopes = <<"Application.ReadWrite.All">>
    /\ sessions[last.req.sessionId].account = Bob
    /\ last.resp.body.adminConsentUrl[2] = "tenantB"

\* scope lists of one, two and three scopes
ScopeLists ==
    {<<TdpScope>>, <<GraphAppScope, TdpScope>>, <<GraphAppScope, GraphInstallScope, TdpScope>>}
AllSucceed == [sc \in {GraphAppScope, GraphInstallScope, TdpScope} |-> Succeeds]

\* C3: when all N silent acquisitions succeed the check answers
\* hasConsent = true with the N scope names, in order, as the granted list, and
\* reports no scope missing (the handler's missing list is empty and the reply
\* has no consent URL), also for a session whose previous check was denied.
C3_AllGrantedHasConsent ==
    /\ (/\ CheckedConsent
        /\ \A sc \in DOMAIN last.env.outcome : last.env.outcome[sc].ok)
          => /\ last.resp.status = 200
             /\ last.resp.body.hasConsent
             /\ last.resp.body.grantedScopes =
                   [i \in 1..Len(RequiredScopes(variant)) |->
                       LastSegment(RequiredScopes(variant)[i])]
             /\ "adminConsentUrl" \notin DOMAIN last.resp.body
             /\ \/ "missingScopes" \notin DOMAIN last.resp.body
                \/ last.resp.body.missingScopes = <<>>
    /\ \A scopes \in ScopeLists :
          LET acc == CheckScopes(scopes, 1, Alice, AllSucceed, EmptyCheck)
          IN  /\ ~acc.thrown
              /\ acc.missingScopes = <<>>
              /\ acc.grantedScopes = [i \in 1..Len(scopes) |-> LastSegment(scopes[i])]

\* the same session id was denied by the previous check and is granted now
C3_Witness ==
    /\ CheckedConsent
    /\ last.prior = "denied"
    /\ last.resp.status = 200
    /\ last.resp.body.hasConsent
    /\ Len(last.resp.body.grantedScopes) = 2

\* the update calls among the remote calls of the last request
UpdateCalls ==
    {i \in DOMAIN last.resp.calls :
        /\ last.resp.calls[i].kind = "POST"
        /\ last.resp.calls[i].url = BotUpdateUrl(last.req.botId)}

\* C6: when the create call of register-bot answers 409, the handler sends
\* exactly one update call with the same bot id and messaging endpoint, and
\* answers success when that update succeeds.
C6_ConflictRecovery ==
    (/\ last.op = "provision/bot"
     /\ last.resp.status # 401
     /\ last.env.tok.ok
     /\ last.env.api = ApiConflict
     /\ last.env.tok2.ok)
        => /\ Cardinality(UpdateCalls) = 1
           /\ \A i \in UpdateCalls :
                 /\ last.resp.calls[i].body.botId = last.req.botId
                 /\ last.resp.calls[i].body.messagingEndpoint = last.req.messagingEndpoint
           /\ last.env.api2.status = 200 => last.resp.status = 200

SessionGuarded ==
    {"auth/check-consent", "check-sideloading", "provision/aad-app",
     "provision/client-secret", "provision/teams-app", "provision/bot",
     "provision/complete"}

\* C8: a session-guarded endpoint called with a session id that is not in the
\* session store, one lost in a restart included, answers 401 "Invalid
\* session" and makes no token acquisition and no remote call.
C8_InvalidSession ==
    (last.op \in SessionGuarded /\ last.req.sessionId \notin DOMAIN sessions)
        => /\ last.resp.status = 401
           /\ last.resp.calls = <<>>
           /\ last.resp.body = [error |-> <<"Invalid session">>]

\* register-bot called with a session id that the restart just before dropped
C8_Witness ==
    /\ last.op = "provision/bot"
    /\ last.prior = "lost"
    /\ last.req.sessionId # ForgedId
    /\ last.resp.status = 401

\* C9: a later completeAuth never changes the account an earlier session id
\* resolves to: two valid authorizations get two distinct session ids.
C9_SessionsNeverOverwritten ==
    [][\A id \in DOMAIN sessions \cap DOMAIN sessions' :
          sessions'[id].account = sessions[id].account]_vars

\* C10: the callback creates a session only when the state it receives was
\* issued by /api/auth/start.
C10_StateValidated ==
    (last.op = "auth/callback" /\ last.req.state \notin issued)
        => last.resp.status \notin {200}

\* C4: a failed step is never followed by a later step of the same run; in
\* particular after a failed mint-secret neither create-package nor
\* register-bot is requested.
C4_SequentialAbort ==
    /\ \A i \in DOMAIN ui.requests :
          ui.requests[i].status # 200 => i = Len(ui.requests)
    /\ \A i \in DOMAIN ui.requests :
          (ui.requests[i].op = "provision/client-secret" /\ ui.requests[i].status # 200)
             => \A j \in DOMAIN ui.requests :
                   ui.requests[j].op \notin {"provision/teams-app", "provision/bot"}

\* the entries of a credentials object, whatever the frontend calls them
Entry(c, keys, absent) ==
    IF \E k \in keys : k \in DOMAIN c
    THEN c[CHOOSE k \in keys : k \in DOMAIN c]
    ELSE absent

\* C5: when the four steps succeed they were requested in the order
\* create-identity, mint-secret, create-package, register-bot, and the
\* credentials hold the client id of step 1, the secret of step 2, the Teams
\* app id of step 3 and the endpoint the caller supplied.
C5_OrderAndCredentials ==
    (/\ ui.phase = "done"
     /\ Len(ui.requests) >= 4
     /\ \A i \in 1..4 : ui.requests[i].status = 200)
        => /\ \A i \in 1..4 : ui.requests[i].op = StepOps[i]
           /\ Entry(ui.credentials, {"CLIENT_ID", "clientId", "botId"}, "absent")
                 = GraphApp.appId
           /\ Entry(ui.credentials, {"CLIENT_SECRET", "clientSecret", "botPassword"}, "absent")
                 = GraphSecret.secretText
           /\ Entry(ui.credentials, {"TEAMS_APP_ID", "teamsAppId"}, "absent")
                 = TdpApp.teamsAppId
           /\ Entry(ui.credentials, {"BOT_ENDPOINT", "botEndpoint"}, <<"absent">>) = ui.form

\* C7: with a messaging endpoint that is not HTTPS no provisioning request is
\* sent to the backend and no remote call is made.
C7_InvalidEndpoint ==
    (ui.frontend # "none" /\ ~startsWithHttps(ui.form))
        => /\ ui.phase # "running"
           /\ ui.requests = <<>>
           /\ ui.calls = <<>>

\* the remote API calls (Graph, Teams Developer Portal) among the calls of the
\* last request; token acquisitions are not API calls
RemoteApiCalls == {i \in DOMAIN last.resp.calls : last.resp.calls[i].kind \in {"POST", "GET"}}

\* C11: create-identity, mint-secret and create-package make at most one remote
\* API call whatever the failure, a 409 included; register-bot makes one create
\* call, makes its update call only after a 409 from the create call, and makes
\* at most one update call, whether the update succeeds or fails.
C11_NoAutomaticRetries ==
    /\ last.op \in {"provision/aad-app", "provision/client-secret", "provision/teams-app"}
          => Cardinality(RemoteApiCalls) <= 1
    /\ last.op = "provision/bot"
          => /\ Cardinality(RemoteApiCalls \ UpdateCalls) <= 1
             /\ Cardinality(UpdateCalls) <= 1
             /\ UpdateCalls # {} => last.env.api = ApiConflict

\* the create call answered 409, the update failed too, and nothing more was sent
C11_Witness ==
    /\ last.op = "provision/bot"
    /\ last.env.api = ApiConflict
    /\ last.env.api2 \in {ApiConflict, ApiFailure}
    /\ last.resp.status = 500
    /\ Cardinality(UpdateCalls) = 1
    /\ Cardinality(RemoteApiCalls) = 2

\* C12: every entry of the session map references an account, never null,
\* that a successful code exchange or device-code completion returned.
C12_SessionsReferenceAccounts ==
    \A id \in DOMAIN sessions : sessions[id].account \in Accounts

\* C13: short of a restart of the process, no request removes or changes an
\* entry of the session map: every existing session id keeps its account and
\* its creation time, and only the authentication callback adds entries.
C13_SessionsNeverMutated ==
    [][last'.op # "restart"
          => /\ \A id \in DOMAIN sessions :
                   id \in DOMAIN sessions' /\ sessions'[id] = sessions[id]
             /\ DOMAIN sessions' # DOMAIN sessions
                   => last'.op \in {"auth/callback", "auth/poll"}]_vars

ErrorUniverse ==
    [errorCode : {"", "consent_required", "interaction_required", "invalid_grant",
                  "no_tokens_found"},
     name : {"InteractionRequiredAuthError", "consent_required", "interaction_required",
             "invalid_grant"},
     message : SUBSET {"AADSTS65001", "has not consented", "consent_required"}]

\* the rule as the claim states it
ConsentByRule(e) ==
    LET code == IF e.errorCode = "" THEN e.name ELSE e.errorCode
    IN  \/ code \in {"consent_required", "interaction_required"}
        \/ code = "invalid_grant" /\ e.message \cap {"AADSTS65001", "has not consented"} # {}

\* C15: a failed silent acquisition is classified as a consent error exactly
\* when its code (errorCode, else the error name) is consent_required or
\* interaction_required, or invalid_grant with AADSTS65001 or 'has not
\* consented' in the message; the consent check reports a failed scope as
\* missing exactly under this rule and fails on every other failure.
C15_ClassificationRule ==
    /\ \A e \in ErrorUniverse : isConsentError(e) <=> ConsentByRule(e)
    /\ (CheckedConsent /\ last.resp.status = 200)
          => \A sc \in DOMAIN last.env.outcome :
                ~last.env.outcome[sc].ok
                   => /\ ConsentByRule(last.env.outcome[sc].error)
                      /\ LastSegment(sc) \in Range(last.resp.body.missingScopes)
                      /\ last.resp.body.scopeErrors[LastSegment(sc)] = "invalid_grant"
                            <=> last.env.outcome[sc].error.errorCode = "invalid_grant"
    /\ (CheckedConsent /\ last.resp.status = 500)
          => \E sc \in DOMAIN last.env.outcome :
                ~last.env.outcome[sc].ok /\ ~ConsentByRule(last.env.outcome[sc].error)

\* an invalid_grant whose message carries AADSTS65001 is reported as missing
\* consent, the other scope as granted
C15_Witness ==
    /\ CheckedConsent
    /\ last.env.outcome[GraphAppScope] = Throws(LegacyAadsts)
    /\ last.env.outcome[TdpScope].ok
    /\ last.resp.status = 200
    /\ last.resp.body.missingScopes = <<"Application.ReadWrite.All">>
    /\ last.resp.body.scopeErrors["Application.ReadWrite.All"] = "invalid_grant"

\* C16: a failed token acquisition is consent-required for every endpoint or
\* for none: check-sideloading answers "needs consent" (403) exactly for the
\* failures the consent check classifies as missing consent, and treats as
\* unexpected (500) exactly the ones the consent check fails on.
C16_ClassifiedOnce ==
    (/\ last.op = "check-sideloading"
     /\ last.resp.status # 401
     /\ ~last.env.tok.ok)
        => (last.resp.status = 403 <=> isConsentError(last.env.tok.error))

\* C17: the minted secret reaches the caller once, in the reply of
\* mint-secret: no other reply carries it, the reply of
\* /api/provision/complete included.
C17_SecretDisclosedOnce ==
    (last.op \in SessionGuarded \ {"provision/client-secret"} /\ last.resp.status = 200)
        => /\ "clientSecret" \notin DOMAIN last.resp.body
           /\ "credentials" \in DOMAIN last.resp.body
                 => \/ "CLIENT_SECRET" \notin DOMAIN last.resp.body.credentials
                    \/ last.resp.body.credentials.CLIENT_SECRET # GraphSecret.secretText

\* C18: every remote call is bounded by a timeout, so every request to a
\* guarded endpoint has received a reply once its handler is through, also
\* when the remote API never answers.
C18_EveryRequestAnswered ==
    last.op \in SessionGuarded => last.resp.status # 0

\* C19: whatever the user clicks in a tab (Check Scopes, Start Provisioning,
\* Retry), at most one provisioning run is in flight at any moment.
C19_OneRunInFlight ==
    InFlight(ui) <= 1

C21_EnabledAfterConsent ==
    [][(~StartEnabled(ui) /\ StartEnabled(ui')) => ui'.consent]_vars

\* the reply a browser's check-consent request just received
ConsentReplied ==
    /\ last'.op = "auth/check-consent"
    /\ last' # last
    /\ ui'.frontend \in {"documented", "reference"}

\* C22: when check-consent answers 401 or 403 the page forgets its session
\* id; from then on, until the page navigates to the sign-in, it holds none,
\* the only request Check Scopes sends is the one that starts a new sign-in,
\* and no request carries the forgotten id
C22_ExpiredSessionForgotten ==
    [][/\ (ConsentReplied /\ last'.resp.status \in {401, 403})
            => (ui'.sessionId = NullId /\ ~ui'.consent)
       /\ (ui.frontend # "none" /\ ui.sessionId = NullId)
            => /\ ui'.frontend = "none" \/ ui'.sessionId = NullId
               /\ last' # last
                    => \/ last'.op \in {"auth/start", "restart"}
                       \/ last'.req.sessionId = NullId
               /\ (last' # last /\ last'.op = "auth/start") => ui'.frontend = "none"
               /\ (last' # last /\ last'.op = "auth/check-consent")
                    => "authStart" \in DOMAIN last'.env]_vars

\* the page of a signed-in user whose session the backend lost: the check
\* answered 401 and the page holds no session id any more
C22_Witness ==
    /\ ui.frontend \in {"documented", "reference"}
    /\ ui.sessionId = NullId
    /\ last.op = "auth/check-consent"
    /\ last.resp.status = 401
    /\ last.req.sessionId \notin {ForgedId, NullId}
    /\ last.prior = "lost"

\* the silent acquisitions a request made, by position in its call log
SilentCalls(calls) == {i \in DOMAIN calls : calls[i].kind = "acquireTokenSilent"}

\* C23: every silent token acquisition requests exactly one scope string, so
\* never scopes of two resources
C23_OneScopePerAcquisition ==
    \A i \in SilentCalls(last.resp.calls) :
        LET scopes == last.resp.calls[i].scopes IN
        /\ Len(scopes) = 1
        /\ \A j, k \in DOMAIN scopes : scopes[j][3] = scopes[k][3]

\* C24: whatever requests came before, every silent acquisition of a request
\* is made with the account stored under the request's session id, and every
\* token sent to a remote API is one of that account, which a sign-in stored
C24_OwnAccountOnly ==
    [][last' # last =>
        LET calls == last'.resp.calls
            sid == last'.req.sessionId
        IN  \A i \in DOMAIN calls :
                /\ calls[i].kind = "acquireTokenSilent"
                     => /\ sid \in DOMAIN sessions
                        /\ calls[i].account = sessions[sid].account
                /\ calls[i].kind \in {"POST", "GET"}
                     => /\ sid \in DOMAIN sessions
                        /\ sessions[sid].account \in Accounts
                        /\ calls[i].token.account = sessions[sid].account.homeAccountId]_vars

\* two users are signed in and a request of one of them acquired a token
C24_Witness ==
    /\ last.req.sessionId \in DOMAIN sessions
    /\ \E other \in DOMAIN sessions :
          /\ sessions[other].account \in Accounts
          /\ sessions[other].account # sessions[last.req.sessionId].account
    /\ \E i \in SilentCalls(last.resp.calls) :
          last.resp.calls[i].account = sessions[last.req.sessionId].account
    /\ \E i \in DOMAIN last.resp.calls :
          /\ last.resp.calls[i].kind = "POST"
          /\ last.resp.calls[i].token.account
                = sessions[last.req.sessionId].account.homeAccountId

\* the names of the scopes whose acquisition failed in the last consent check
MissingNames ==
    {LastSegment(sc) : sc \in {x \in Range(RequiredScopes(variant)) :
                                   ~last.env.outcome[x].ok}}

\* C25: in every successful consent check result, hasConsent is true exactly
\* when no scope is missing, and the result holds an admin consent URL (and
\* the list of the missing scopes) exactly when some scope is missing
C25_SatisfiedIffNothingMissing ==
    (CheckedConsent /\ last.resp.status = 200) =>
        LET body == last.resp.body IN
        /\ body.hasConsent <=> MissingNames = {}
        /\ "adminConsentUrl" \in DOMAIN body <=> MissingNames # {}
        /\ "missingScopes" \in DOMAIN body <=> MissingNames # {}
        /\ "missingScopes" \in DOMAIN body => Range(body.missingScopes) = MissingNames

\* Alice's session: the Graph scope lacks consent, the Teams Developer Portal
\* scope is granted, and the result holds the URL
C25_Witness ==
    /\ CheckedConsent
    /\ last.resp.status = 200
    /\ sessions[last.req.sessionId].account = Alice
    /\ last.env.outcome[GraphAppScope] = Throws(ConsentRequired)
    /\ last.env.outcome[TdpScope] = Succeeds
    /\ ~last.resp.body.hasConsent
    /\ "adminConsentUrl" \in DOMAIN last.resp.body

\* how many scopes the consent check tries: all of them, or up to the first
\* one that fails unexpectedly
RECURSIVE TriedUpTo(_, _, _)
TriedUpTo(scopes, outcome, i) ==
    IF i > Len(scopes) THEN Len(scopes)
    ELSE IF FailedUnexpectedly(outcome[scopes[i]]) THEN i
    ELSE TriedUpTo(scopes, outcome, i + 1)

\* C27: the consent check tries the scopes one at a time in a fixed order, the
\* Graph scopes before the Teams Developer Portal ones; a consent failure does
\* not stop it, and after the first unexpected failure it tries no more
C27_OneScopeAtATimeInOrder ==
    CheckedConsent =>
        LET scopes == RequiredScopes(variant)
            calls == last.resp.calls
        IN  /\ Len(calls) = TriedUpTo(scopes, last.env.outcome, 1)
            /\ \A i \in DOMAIN calls :
                  /\ calls[i].kind = "acquireTokenSilent"
                  /\ calls[i].scopes = <<scopes[i]>>
            /\ \A i, j \in DOMAIN calls :
                  (calls[i].scopes[1][3] = "dev.teams.microsoft.com"
                   /\ calls[j].scopes[1][3] = "graph.microsoft.com") => j < i

\* the Graph scope lacks consent, the Teams Developer Portal scope is tried
\* all the same and fails unexpectedly
C27_Witness ==
    /\ CheckedConsent
    /\ last.env.outcome[GraphAppScope] = Throws(LegacyAadsts)
    /\ last.env.outcome[TdpScope] = Throws(ExpiredGrant)
    /\ Len(last.resp.calls) = 2
    /\ last.resp.calls[2].scopes = <<TdpScope>>
    /\ last.resp.status = 500

\* C26: when the create call of register-bot answers 409, the handler makes a
\* new silent token acquisition before the update and sends the update with
\* the token it returned; when that acquisition fails, no update call is made
\* and the request fails
C26_FreshTokenBeforeUpdate ==
    (/\ last.op = "provision/bot"
     /\ last.resp.status # 401
     /\ last.env.tok.ok
     /\ last.env.api = ApiConflict)
        => LET calls == last.resp.calls IN
           /\ Len(calls) >= 3
           /\ calls[3] = SilentRequest(calls[1].account, tdpScopes)
           /\ last.env.tok2.ok
                => /\ UpdateCalls = {4}
                   /\ calls[4].token = Token(calls[1].account, tdpScopes)
           /\ ~last.env.tok2.ok
                => /\ UpdateCalls = {}
                   /\ last.resp.status = 500

\* C28: whenever POST /api/auth/callback answers with an error, the session
\* store is exactly as it was before the request
C28_CallbackAtomicOnFailure ==
    [][(last'.op = "auth/callback" /\ last'.resp.status # 200)
          => sessions' = sessions]_vars

\* C29: a run reports overall success (the credentials are shown) only if its
\* four steps all succeeded, and the credentials shown are the values those
\* four replies and the form gave
C29_SuccessMeansAllSteps ==
    (ui.phase = "done" /\ InFlight(ui) = 0)
        => /\ Len(ui.requests) >= 4
           /\ \A i \in 1..4 :
                 ui.requests[i].op = StepOps[i] /\ ui.requests[i].status = 200
           /\ Entry(ui.credentials, {"CLIENT_ID", "clientId", "botId"}, "absent")
                 = GraphApp.appId
           /\ Entry(ui.credentials, {"CLIENT_SECRET", "clientSecret", "botPassword"}, "absent")
                 = GraphSecret.secretText
           /\ Entry(ui.credentials, {"TEAMS_APP_ID", "teamsAppId"}, "absent")
                 = TdpApp.teamsAppId

\* a poll was answered in this step
PollAnswered == last'.op = "auth/poll" /\ last' # last

\* C30: a poll of a request that has not completed answers pending and changes
\* nothing; a poll of an unknown request id answers 400 and changes nothing; a
\* poll of a completed request removes the request id, and adds a session (one
\* at most) only when the authentication succeeded; nothing but such a poll
\* adds a session in the device-code backend
C30_PollCreatesOneSession ==
    [][/\ PollAnswered =>
            LET requestId == last'.req.requestId
                reply == last'.resp
            IN  /\ requestId \notin DOMAIN pending
                     => /\ reply = Reply(400, [error |-> <<"Invalid request ID">>], <<>>)
                        /\ sessions' = sessions /\ pending' = pending
                /\ (requestId \in DOMAIN pending /\ ~pending[requestId].completed)
                     => /\ reply = Reply(200, [pending |-> TRUE], <<>>)
                        /\ sessions' = sessions /\ pending' = pending
                /\ (requestId \in DOMAIN pending /\ pending[requestId].completed)
                     => /\ requestId \notin DOMAIN pending'
                        /\ Cardinality(DOMAIN sessions' \ DOMAIN sessions) <= 1
                        /\ pending[requestId].failed => sessions' = sessions
       /\ (variant = "devicecode" /\ sessions' # sessions /\ last'.op # "restart")
            => /\ PollAnswered
               /\ last'.req.requestId \in DOMAIN pending
               /\ pending[last'.req.requestId].completed
               /\ ~pending[last'.req.requestId].failed]_vars

\* a request was polled into a session, and the repeated poll of the same
\* request id is answered 400
C30_Witness ==
    /\ last.op = "auth/poll"
    /\ last.req.requestId # ForgedId
    /\ last.resp.status = 400
    /\ Cardinality(DOMAIN sessions) = 1
    /\ \A id \in DOMAIN sessions : sessions[id].account = Alice

\* the user completed the sign-in of the request the page is polling: the
\* device-code flow resolved
AuthenticationCompleted ==
    /\ ui.poll = "polling"
    /\ ui.requestId \in DOMAIN pending
    /\ pending[ui.requestId].completed
    /\ ~pending[ui.requestId].failed

\* C31: in the device-code variant the page polls only while its loop runs,
\* polls again exactly after a pending answer and stops after any other
\* answer; once the user has completed the sign-in the loop receives a session
\* id and enables step 2: the loop polls every three seconds, so this is the
\* poll answered next
C31_PollLoopCompletes ==
    [][PollAnswered =>
          /\ ui.poll = "polling"
          /\ last'.req.requestId = ui.requestId
          /\ ("pending" \in DOMAIN last'.resp.body) <=> (ui'.poll = "polling")
          /\ AuthenticationCompleted
               => /\ last'.resp.status = 200
                  /\ "sessionId" \in DOMAIN last'.resp.body
                  /\ ui'.poll = "done"
                  /\ ui'.sessionId = last'.resp.body.sessionId
                  /\ ui'.sessionId \in DOMAIN sessions'
                  /\ ui'.step2]_vars

\* C32: a page without session sends no check-consent request: Check Scopes
\* starts the sign-in, and the consent check waits for the session id that
\* the auth callback gives
C32_NoConsentCheckWithoutSession ==
    [][(last'.op = "auth/check-consent" /\ last' # last)
          => last'.req.sessionId # NullId]_vars

\* the resource a remote call goes to, by the base URL of its address
UrlHost(url) ==
    IF url[1] = "https://graph.microsoft.com/v1.0" THEN "graph.microsoft.com"
    ELSE "dev.teams.microsoft.com"

\* the resource each provisioning step works on
StepHost(op) ==
    IF op \in {"provision/aad-app", "provision/client-secret"} THEN "graph.microsoft.com"
    ELSE "dev.teams.microsoft.com"

\* C33: every remote call of a provisioning step goes to the resource of the
\* step (Graph for create-identity and mint-secret, the Teams Developer Portal
\* for create-package and the create and update calls of register-bot) and
\* carries a token that the same request acquired for scopes of that resource
\* and of no other
C33_TokenOfOwnResource ==
    \A i \in RemoteApiCalls :
        LET call == last.resp.calls[i] IN
        /\ last.op \in {"provision/aad-app", "provision/client-secret",
                        "provision/teams-app", "provision/bot"}
             => UrlHost(call.url) = StepHost(last.op)
        /\ call.token.scopes # <<>>
        /\ \A k \in DOMAIN call.token.scopes : call.token.scopes[k][3] = UrlHost(call.url)
        /\ \E j \in SilentCalls(last.resp.calls) :
              j < i /\ last.resp.calls[j].scopes = call.token.scopes

\* register-bot after a conflict: the create call and the update call both
\* went to the Teams Developer Portal with its token, and the update succeeded
C33_Witness ==
    /\ last.op = "provision/bot"
    /\ last.resp.status = 200
    /\ Cardinality(RemoteApiCalls) = 2
    /\ Cardinality(UpdateCalls) = 1
    /\ \A i \in RemoteApiCalls : last.resp.calls[i].token.scopes = tdpScopes

\* the names of a list of scopes, in the order of the list
Names(scopes) == [i \in DOMAIN scopes |-> LastSegment(scopes[i])]
Acquired(sc) == last.env.outcome[sc].ok
Refused(sc) == ~last.env.outcome[sc].ok

\* C34: in every successful consent check result the granted list holds the
\* names of the required scopes whose acquisition succeeded and the missing
\* list (empty when the result has none) the names of the others, each name
\* once and in configuration order: the two lists partition the required scopes
C34_ListsPartitionRequiredScopes ==
    (CheckedConsent /\ last.resp.status = 200) =>
        LET body == last.resp.body
            missing == IF "missingScopes" \in DOMAIN body THEN body.missingScopes ELSE <<>>
        IN  /\ body.grantedScopes = Names(SelectSeq(RequiredScopes(variant), Acquired))
            /\ missing = Names(SelectSeq(RequiredScopes(variant), Refused))
            /\ Range(body.grantedScopes) \cap Range(missing) = {}
            /\ Len(body.grantedScopes) + Len(missing) = Len(RequiredScopes(variant))

\* both scopes are granted and the result lists them in configuration order
C34_Witness ==
    /\ CheckedConsent
    /\ last.resp.status = 200
    /\ last.resp.body.grantedScopes = <<"Application.ReadWrite.All", "AppDefinitions.ReadWrite">>
    /\ "missingScopes" \notin DOMAIN last.resp.body

\* the requests a handler served to its end: every call it awaited settled
HandlerOps == SessionGuarded \cup {"auth/start", "auth/callback", "auth/poll"}
HandlerThrough ==
    /\ last.op \in HandlerOps
    /\ "api" \in DOMAIN last.env => last.env.api # ApiPending
    /\ "api2" \in DOMAIN last.env => last.env.api2 # ApiPending

C36_PendingEntriesWereReturned ==
    [][\A id \in DOMAIN pending' \ DOMAIN pending :
          /\ last'.op = "auth/start"
          /\ last'.resp.status = 200
          /\ last'.resp.body.requestId = id]_vars

\* C37: the credentials /api/provision/complete returns carry the tenant id
\* of the account stored under the request's session (null when the session
\* holds no account), whatever TENANT_ID the client sent, and every other
\* field as the client sent it
C37_TenantFromSession ==
    [][(last' # last /\ last'.op = "provision/complete" /\ last'.resp.status = 200)
          => LET sent == last'.req.credentials
                 back == last'.resp.body.credentials
                 account == sessions[last'.req.sessionId].account
             IN  /\ DOMAIN back = DOMAIN sent \cup {"TENANT_ID"}
                 /\ back.TENANT_ID = IF account = NoAccount THEN "null"
                                      ELSE account.tenantId
                 /\ \A k \in DOMAIN sent \ {"TENANT_ID"} : back[k] = sent[k]]_vars

\* a client of another tenant's name got the tenant of its session's account
C37_Witness ==
    /\ last.op = "provision/complete"
    /\ last.resp.status = 200
    /\ "TENANT_ID" \in DOMAIN last.req.credentials
    /\ last.req.credentials.TENANT_ID = "tenantB"
    /\ last.resp.body.credentials.TENANT_ID = "tenantA"
    /\ last.resp.body.credentials.CLIENT_ID = last.req.credentials.CLIENT_ID

====
